---- MODULE Spec2Model ----
(***************************************************************************)
(* Model of tools/extract_musicxml_fragments.py (and of the                *)
(* XMLMarkupExtractor class it shares with                                 *)
(* tools/extract_musicxml_examples.py).                                    *)
(*                                                                         *)
(* A text (Python str) is a sequence of symbols.  A symbol is either one   *)
(* character of extracted text ("<", "a", " ", "\n", ...), one HTML        *)
(* character reference ("&lt;", "&#32;", ...) or one whole literal line of *)
(* a wrapper template (e.g. "    </measure>").  The Python string is the   *)
(* concatenation of the symbols.  Every placeholder of the templates sits  *)
(* alone on its line, so a template is a list of literal lines before the  *)
(* spliced content and a list of literal lines after it.                   *)
(***************************************************************************)
EXTENDS Integers, Sequences, FiniteSets

VARIABLES pc, html_left, in_xmlmarkup, depth, content, xml, root, wrapped, skipped

vars == <<pc, html_left, in_xmlmarkup, depth, content, xml, root, wrapped, skipped>>

\* Python's None, as a text no fragment or document can equal.
None == <<"None">>

(***************************************************************************)
(* Bounds of the model.                                                    *)
(***************************************************************************)
\* Largest number of lines after the opening tag in a generated fragment.
MaxBodyLines == 2
\* Largest number of parser events in one HTML file.
MaxEvents == 4

(***************************************************************************)
(* Characters.                                                             *)
(***************************************************************************)
Lower == {"a","b","c","d","e","f","g","h","i","j","k","l","m",
          "n","o","p","q","r","s","t","u","v","w","x","y","z"}
Upper == {"A","B","C","D","E","F","G","H","I","J","K","L","M",
          "N","O","P","Q","R","S","T","U","V","W","X","Y","Z"}
Digits == {"0","1","2","3","4","5","6","7","8","9"}
\* str.strip() with no argument removes whitespace.
Whitespace == {" ", "\n", "\t"}

(***************************************************************************)
(* Category tables.                                                        *)
(***************************************************************************)
\* Elements that go inside a measure.
MEASURE_CONTENT_ELEMENTS ==
  { <<"n","o","t","e">>,
    <<"f","o","r","w","a","r","d">>,
    <<"b","a","c","k","u","p">>,
    <<"d","i","r","e","c","t","i","o","n">>,
    <<"a","t","t","r","i","b","u","t","e","s">>,
    <<"h","a","r","m","o","n","y">>,
    <<"f","i","g","u","r","e","d","-","b","a","s","s">>,
    <<"p","r","i","n","t">>,
    <<"s","o","u","n","d">>,
    <<"l","i","s","t","e","n","i","n","g">>,
    <<"b","a","r","l","i","n","e">>,
    <<"g","r","o","u","p","i","n","g">>,
    <<"l","i","n","k">>,
    <<"b","o","o","k","m","a","r","k">> }

\* Elements that go inside a note.
NOTE_CONTENT_ELEMENTS ==
  { <<"p","i","t","c","h">>,
    <<"u","n","p","i","t","c","h","e","d">>,
    <<"r","e","s","t">>,
    <<"d","u","r","a","t","i","o","n">>,
    <<"t","i","e">>,
    <<"v","o","i","c","e">>,
    <<"t","y","p","e">>,
    <<"d","o","t">>,
    <<"a","c","c","i","d","e","n","t","a","l">>,
    <<"t","i","m","e","-","m","o","d","i","f","i","c","a","t","i","o","n">>,
    <<"s","t","e","m">>,
    <<"n","o","t","e","h","e","a","d">>,
    <<"n","o","t","e","h","e","a","d","-","t","e","x","t">>,
    <<"b","e","a","m">>,
    <<"n","o","t","a","t","i","o","n","s">>,
    <<"l","y","r","i","c">>,
    <<"p","l","a","y">>,
    <<"l","i","s","t","e","n">>,
    <<"i","n","s","t","r","u","m","e","n","t">>,
    <<"f","o","o","t","n","o","t","e">>,
    <<"l","e","v","e","l">>,
    <<"s","t","a","f","f">>,
    <<"c","u","e">>,
    <<"g","r","a","c","e">>,
    <<"c","h","o","r","d">> }

\* Elements inside notations.
NOTATION_ELEMENTS ==
  { <<"t","i","e","d">>,
    <<"s","l","u","r">>,
    <<"t","u","p","l","e","t">>,
    <<"g","l","i","s","s","a","n","d","o">>,
    <<"s","l","i","d","e">>,
    <<"o","r","n","a","m","e","n","t","s">>,
    <<"t","e","c","h","n","i","c","a","l">>,
    <<"a","r","t","i","c","u","l","a","t","i","o","n","s">>,
    <<"d","y","n","a","m","i","c","s">>,
    <<"f","e","r","m","a","t","a">>,
    <<"a","r","p","e","g","g","i","a","t","e">>,
    <<"n","o","n","-","a","r","p","e","g","g","i","a","t","e">>,
    <<"a","c","c","i","d","e","n","t","a","l","-","m","a","r","k">>,
    <<"o","t","h","e","r","-","n","o","t","a","t","i","o","n">> }

\* Articulation elements.
ARTICULATION_ELEMENTS ==
  { <<"a","c","c","e","n","t">>,
    <<"s","t","r","o","n","g","-","a","c","c","e","n","t">>,
    <<"s","t","a","c","c","a","t","o">>,
    <<"t","e","n","u","t","o">>,
    <<"d","e","t","a","c","h","e","d","-","l","e","g","a","t","o">>,
    <<"s","t","a","c","c","a","t","i","s","s","i","m","o">>,
    <<"s","p","i","c","c","a","t","o">>,
    <<"s","c","o","o","p">>,
    <<"p","l","o","p">>,
    <<"d","o","i","t">>,
    <<"f","a","l","l","o","f","f">>,
    <<"b","r","e","a","t","h","-","m","a","r","k">>,
    <<"c","a","e","s","u","r","a">>,
    <<"s","t","r","e","s","s">>,
    <<"u","n","s","t","r","e","s","s">>,
    <<"s","o","f","t","-","a","c","c","e","n","t">>,
    <<"o","t","h","e","r","-","a","r","t","i","c","u","l","a","t","i","o","n">> }

\* Direction type elements.
DIRECTION_TYPE_ELEMENTS ==
  { <<"r","e","h","e","a","r","s","a","l">>,
    <<"s","e","g","n","o">>,
    <<"c","o","d","a">>,
    <<"w","o","r","d","s">>,
    <<"s","y","m","b","o","l">>,
    <<"w","e","d","g","e">>,
    <<"d","y","n","a","m","i","c","s">>,
    <<"d","a","s","h","e","s">>,
    <<"b","r","a","c","k","e","t">>,
    <<"p","e","d","a","l">>,
    <<"m","e","t","r","o","n","o","m","e">>,
    <<"o","c","t","a","v","e","-","s","h","i","f","t">>,
    <<"h","a","r","p","-","p","e","d","a","l","s">>,
    <<"d","a","m","p">>,
    <<"d","a","m","p","-","a","l","l">>,
    <<"e","y","e","g","l","a","s","s","e","s">>,
    <<"s","t","r","i","n","g","-","m","u","t","e">>,
    <<"s","c","o","r","d","a","t","u","r","a">>,
    <<"i","m","a","g","e">>,
    <<"p","r","i","n","c","i","p","a","l","-","v","o","i","c","e">>,
    <<"p","e","r","c","u","s","s","i","o","n">>,
    <<"a","c","c","o","r","d","i","o","n","-","r","e","g","i","s","t","r","a","t","i","o","n">>,
    <<"s","t","a","f","f","-","d","i","v","i","d","e">>,
    <<"o","t","h","e","r","-","d","i","r","e","c","t","i","o","n">> }

\* Roots of complete files (wrap_fragment, first test).
DOCUMENT_ROOT_TAGS ==
  { <<"s","c","o","r","e","-","p","a","r","t","w","i","s","e">>,
    <<"s","c","o","r","e","-","t","i","m","e","w","i","s","e">> }

\* Roots of the container, opus and sounds schemas.
NON_TARGET_TAGS ==
  { <<"c","o","n","t","a","i","n","e","r">>,
    <<"r","o","o","t","f","i","l","e","s">>,
    <<"r","o","o","t","f","i","l","e">>,
    <<"o","p","u","s">>,
    <<"o","p","u","s","-","r","e","f","e","r","e","n","c","e">>,
    <<"s","o","u","n","d","s">>,
    <<"s","o","u","n","d">>,
    <<"p","l","a","y">>,
    <<"i","n","s","t","r","u","m","e","n","t","-","s","o","u","n","d">>,
    <<"s","o","l","o">>,
    <<"e","n","s","e","m","b","l","e">> }

\* Note content that replaces the pitch of the synthesized note.
PITCH_REPLACING_TAGS ==
  { <<"p","i","t","c","h">>,
    <<"u","n","p","i","t","c","h","e","d">>,
    <<"r","e","s","t">> }

\* Children of <attributes>.
ATTRIBUTE_SECTION_TAGS ==
  { <<"k","e","y">>,
    <<"t","i","m","e">>,
    <<"c","l","e","f">>,
    <<"s","t","a","v","e","s">>,
    <<"i","n","s","t","r","u","m","e","n","t","s">>,
    <<"t","r","a","n","s","p","o","s","e">>,
    <<"d","i","v","i","s","i","o","n","s">> }

\* Children of the part list.
PART_LIST_SECTION_TAGS ==
  { <<"p","a","r","t","-","l","i","s","t">>,
    <<"s","c","o","r","e","-","p","a","r","t">>,
    <<"p","a","r","t","-","n","a","m","e">>,
    <<"p","a","r","t","-","a","b","b","r","e","v","i","a","t","i","o","n">>,
    <<"p","a","r","t","-","g","r","o","u","p">>,
    <<"g","r","o","u","p","-","n","a","m","e">>,
    <<"g","r","o","u","p","-","s","y","m","b","o","l">>,
    <<"g","r","o","u","p","-","b","a","r","l","i","n","e">>,
    <<"s","c","o","r","e","-","i","n","s","t","r","u","m","e","n","t">>,
    <<"m","i","d","i","-","d","e","v","i","c","e">>,
    <<"m","i","d","i","-","i","n","s","t","r","u","m","e","n","t">>,
    <<"v","i","r","t","u","a","l","-","i","n","s","t","r","u","m","e","n","t">> }

\* Header elements.
HEADER_TAGS ==
  { <<"w","o","r","k">>,
    <<"w","o","r","k","-","t","i","t","l","e">>,
    <<"w","o","r","k","-","n","u","m","b","e","r">>,
    <<"o","p","u","s">>,
    <<"m","o","v","e","m","e","n","t","-","n","u","m","b","e","r">>,
    <<"m","o","v","e","m","e","n","t","-","t","i","t","l","e">>,
    <<"i","d","e","n","t","i","f","i","c","a","t","i","o","n">>,
    <<"c","r","e","a","t","o","r">>,
    <<"r","i","g","h","t","s">>,
    <<"e","n","c","o","d","i","n","g">>,
    <<"s","o","u","r","c","e">>,
    <<"r","e","l","a","t","i","o","n">>,
    <<"m","i","s","c","e","l","l","a","n","e","o","u","s">>,
    <<"d","e","f","a","u","l","t","s">>,
    <<"c","r","e","d","i","t">>,
    <<"c","r","e","d","i","t","-","t","y","p","e">>,
    <<"c","r","e","d","i","t","-","i","m","a","g","e">>,
    <<"c","r","e","d","i","t","-","w","o","r","d","s">>,
    <<"c","r","e","d","i","t","-","s","y","m","b","o","l">> }

(***************************************************************************)
(* String primitives used by the program.                                  *)
(***************************************************************************)
RECURSIVE lstrip(_)
lstrip(s) ==
  IF s = <<>> THEN s
  ELSE IF Head(s) \in Whitespace THEN lstrip(Tail(s)) ELSE s

RECURSIVE rstrip(_)
rstrip(s) ==
  IF s = <<>> THEN s
  ELSE IF s[Len(s)] \in Whitespace THEN rstrip(SubSeq(s, 1, Len(s) - 1)) ELSE s

\* str.strip()
strip(s) == rstrip(lstrip(s))

\* str.split('\n'): always at least one line
RECURSIVE split(_)
split(s) ==
  LET nl == {i \in 1..Len(s) : s[i] = "\n"}
  IN  IF nl = {} THEN <<s>>
      ELSE LET i == CHOOSE j \in nl : \A k \in nl : j <= k
           IN  <<SubSeq(s, 1, i - 1)>> \o split(SubSeq(s, i + 1, Len(s)))

\* '\n'.join(lines)
RECURSIVE join(_)
join(lines) ==
  IF lines = <<>> THEN <<>>
  ELSE IF Len(lines) = 1 THEN lines[1]
  ELSE lines[1] \o <<"\n">> \o join(Tail(lines))

\* ' ' * spaces
Spaces(spaces) == [i \in 1..spaces |-> " "]

\* A template given as its literal lines, joined by newlines.
Literal(lines) == join([i \in 1..Len(lines) |-> <<lines[i]>>])

(***************************************************************************)
(* get_root_element: a regular expression search, ignoring case, for '<'   *)
(* and a name: a letter, then letters, digits and '-'.  The match is at    *)
(* the leftmost '<' that is followed by a letter of either case; group 1   *)
(* is the longest run of letters, digits and '-' after it, as written.     *)
(***************************************************************************)
NameStart == Lower \cup Upper
NameChar == Lower \cup Upper \cup Digits \cup {"-"}

get_root_element(s) ==
  LET starts == {i \in 1..(Len(s) - 1) : s[i] = "<" /\ s[i + 1] \in NameStart}
  IN  IF starts = {} THEN None
      ELSE LET i == CHOOSE j \in starts : \A k \in starts : j <= k
               ends == {j \in (i + 1)..Len(s) : \A k \in (i + 1)..j : s[k] \in NameChar}
               e == CHOOSE j \in ends : \A k \in ends : k <= j
           IN  SubSeq(s, i + 1, e)

(***************************************************************************)
(* indent_content                                                          *)
(***************************************************************************)
\* indent_content that also indents blank lines
indent_content_every_line(text, spaces) ==
  LET indent == Spaces(spaces)
      lines == split(text)
  IN  join([i \in 1..Len(lines) |-> indent \o lines[i]])

\* indent_content that filters out the blank lines instead of keeping them
indent_content_drop_blank(text, spaces) ==
  LET indent == Spaces(spaces)
      lines == SelectSeq(split(text), LAMBDA l : strip(l) # <<>>)
  IN  join([i \in 1..Len(lines) |-> indent \o lines[i]])

indent_content(text, spaces) ==
  LET indent == Spaces(spaces)
      lines == split(text)
  IN  join([i \in 1..Len(lines) |->
              IF strip(lines[i]) # <<>> THEN indent \o lines[i] ELSE lines[i]])

(***************************************************************************)
(* Wrapper templates.                                                      *)
(***************************************************************************)
SCORE_HEADER ==
  << "<?xml version=\"1.0\" encoding=\"UTF-8\"?>",
     "<score-partwise version=\"4.1\">",
     "  <part-list>",
     "    <score-part id=\"P1\">",
     "      <part-name>Part 1</part-name>",
     "    </score-part>",
     "  </part-list>" >>

\* SCORE_WRAPPER with a second part-list entry
SCORE_WRAPPER_two_entries(body) ==
  Literal(SCORE_HEADER \o << "    <score-part id=\"P1\">", "  <part id=\"P1\">" >>)
    \o <<"\n">> \o body \o <<"\n">>
    \o Literal(<< "  </part>", "</score-partwise>" >>)

SCORE_WRAPPER(body) ==
  Literal(SCORE_HEADER \o << "  <part id=\"P1\">" >>)
    \o <<"\n">> \o body \o <<"\n">>
    \o Literal(<< "  </part>", "</score-partwise>" >>)

MEASURE_PREAMBLE ==
  << "      <attributes>",
     "        <divisions>24</divisions>",
     "        <key>",
     "          <fifths>0</fifths>",
     "        </key>",
     "        <time>",
     "          <beats>4</beats>",
     "          <beat-type>4</beat-type>",
     "        </time>",
     "        <clef>",
     "          <sign>G</sign>",
     "          <line>2</line>",
     "        </clef>",
     "      </attributes>" >>

MEASURE_WRAPPER(body) ==
  Literal(<< "    <measure number=\"1\">" >> \o MEASURE_PREAMBLE)
    \o <<"\n">> \o body \o <<"\n">>
    \o Literal(<< "    </measure>" >>)

(***************************************************************************)
(* wrap_fragment: the conditions of the if/elif chain, in code order.      *)
(***************************************************************************)
IsComplete(r) == r \in DOCUMENT_ROOT_TAGS
\* the non-target test with 'part' added to the list
IsNonTarget_with_part(r) == r \in NON_TARGET_TAGS \cup { <<"p","a","r","t">> }

IsNonTarget(r) == r \in NON_TARGET_TAGS
IsMeasure(r) == r = <<"m","e","a","s","u","r","e">>
IsPart(r) == r = <<"p","a","r","t">>
IsMeasureContent(r) == r \in MEASURE_CONTENT_ELEMENTS
IsNoteContent(r) ==
  r \in NOTE_CONTENT_ELEMENTS \/ r \in NOTATION_ELEMENTS \/ r \in ARTICULATION_ELEMENTS
IsDirectionTypeContent(r) == r \in DIRECTION_TYPE_ELEMENTS
IsDirectionType(r) == r = <<"d","i","r","e","c","t","i","o","n","-","t","y","p","e">>
\* the 'notations' test with the tag misspelt
IsNotations_misspelt(r) == r = <<"n","o","t","a","t","i","o","n">>

IsNotations(r) == r = <<"n","o","t","a","t","i","o","n","s">>
IsAttributeSection(r) == r \in ATTRIBUTE_SECTION_TAGS
IsPartListSection(r) == r \in PART_LIST_SECTION_TAGS
\* the header test with 'credit' forgotten
IsHeader_no_credit(r) == r \in HEADER_TAGS \ { <<"c","r","e","d","i","t">> }

IsHeader(r) == r \in HEADER_TAGS

(***************************************************************************)
(* wrap_fragment: the bodies of the branches that build a document.        *)
(***************************************************************************)
\* root == 'measure'
wrap_measure(s) == SCORE_WRAPPER(indent_content(strip(s), 4))

\* root == 'part'
wrap_part(s) ==
  Literal(SCORE_HEADER) \o <<"\n">> \o strip(s) \o <<"\n">>
    \o Literal(<< "</score-partwise>" >>)

\* root in MEASURE_CONTENT_ELEMENTS
wrap_measure_content(s) ==
  LET inner == indent_content(strip(s), 6)
      measure == MEASURE_WRAPPER(inner)
  IN  SCORE_WRAPPER(measure)

\* root in NOTE_CONTENT_ELEMENTS or NOTATION_ELEMENTS or ARTICULATION_ELEMENTS
wrap_note_content(s, r) ==
  LET note_content ==
        IF r \in PITCH_REPLACING_TAGS
        THEN Literal(<< "      <note>" >>)
               \o <<"\n">> \o indent_content(strip(s), 8) \o <<"\n">>
               \o Literal(<< "        <duration>4</duration>",
                             "        <type>quarter</type>",
                             "      </note>" >>)
        ELSE Literal(<< "      <note>",
                        "        <pitch>",
                        "          <step>C</step>",
                        "          <octave>4</octave>",
                        "        </pitch>",
                        "        <duration>4</duration>",
                        "        <type>quarter</type>" >>)
               \o <<"\n">> \o indent_content(strip(s), 8) \o <<"\n">>
               \o Literal(<< "      </note>" >>)
      measure == MEASURE_WRAPPER(note_content)
  IN  SCORE_WRAPPER(measure)

\* the direction branch without the <direction-type> wrapper
wrap_direction_type_content_bare(s) ==
  LET direction_content ==
        Literal(<< "      <direction>" >>)
          \o <<"\n">> \o indent_content(strip(s), 10) \o <<"\n">>
          \o Literal(<< "      </direction>" >>)
      measure == MEASURE_WRAPPER(direction_content)
  IN  SCORE_WRAPPER(measure)

\* root in DIRECTION_TYPE_ELEMENTS
wrap_direction_type_content(s) ==
  LET direction_content ==
        Literal(<< "      <direction>", "        <direction-type>" >>)
          \o <<"\n">> \o indent_content(strip(s), 10) \o <<"\n">>
          \o Literal(<< "        </direction-type>", "      </direction>" >>)
      measure == MEASURE_WRAPPER(direction_content)
  IN  SCORE_WRAPPER(measure)

\* root == 'direction-type'
wrap_direction_type(s) ==
  LET direction_content ==
        Literal(<< "      <direction>" >>)
          \o <<"\n">> \o indent_content(strip(s), 8) \o <<"\n">>
          \o Literal(<< "      </direction>" >>)
      measure == MEASURE_WRAPPER(direction_content)
  IN  SCORE_WRAPPER(measure)

\* root == 'notations'
wrap_notations(s) ==
  LET note_content ==
        Literal(<< "      <note>",
                   "        <pitch>",
                   "          <step>C</step>",
                   "          <octave>4</octave>",
                   "        </pitch>",
                   "        <duration>4</duration>",
                   "        <type>quarter</type>" >>)
          \o <<"\n">> \o indent_content(strip(s), 8) \o <<"\n">>
          \o Literal(<< "      </note>" >>)
      measure == MEASURE_WRAPPER(note_content)
  IN  SCORE_WRAPPER(measure)

\* root in ('key', 'time', 'clef', ...)
wrap_attribute_section(s) ==
  LET attr_content ==
        Literal(<< "      <attributes>" >>)
          \o <<"\n">> \o indent_content(strip(s), 8) \o <<"\n">>
          \o Literal(<< "      </attributes>",
                        "      <note>",
                        "        <pitch><step>C</step><octave>4</octave></pitch>",
                        "        <duration>4</duration>",
                        "        <type>quarter</type>",
                        "      </note>" >>)
      measure_content ==
        Literal(<< "    <measure number=\"1\">" >>)
          \o <<"\n">> \o attr_content \o <<"\n">>
          \o Literal(<< "    </measure>" >>)
  IN  SCORE_WRAPPER(measure_content)

\* root in ('part-list', 'score-part', ...): a fixed document
wrap_part_list_section ==
  Literal(SCORE_HEADER \o
          << "  <part id=\"P1\">",
             "    <measure number=\"1\">",
             "      <attributes>",
             "        <divisions>1</divisions>",
             "      </attributes>",
             "      <note>",
             "        <pitch><step>C</step><octave>4</octave></pitch>",
             "        <duration>4</duration>",
             "        <type>whole</type>",
             "      </note>",
             "    </measure>",
             "  </part>",
             "</score-partwise>" >>)

\* else: generic measure content wrap
wrap_fallback(s) ==
  LET inner == indent_content(strip(s), 6)
      measure == MEASURE_WRAPPER(inner)
  IN  SCORE_WRAPPER(measure)

(***************************************************************************)
(* wrap_fragment                                                           *)
(***************************************************************************)
wrap_fragment(s) ==
  LET r == get_root_element(s)
  IN  IF r = None THEN None
      ELSE IF IsComplete(r) THEN None
      ELSE IF IsNonTarget(r) THEN None
      ELSE IF IsMeasure(r) THEN wrap_measure(s)
      ELSE IF IsPart(r) THEN wrap_part(s)
      ELSE IF IsMeasureContent(r) THEN wrap_measure_content(s)
      ELSE IF IsNoteContent(r) THEN wrap_note_content(s, r)
      ELSE IF IsDirectionTypeContent(r) THEN wrap_direction_type_content(s)
      ELSE IF IsDirectionType(r) THEN wrap_direction_type(s)
      ELSE IF IsNotations(r) THEN wrap_notations(s)
      ELSE IF IsAttributeSection(r) THEN wrap_attribute_section(s)
      ELSE IF IsPartListSection(r) THEN wrap_part_list_section
      ELSE IF IsHeader(r) THEN None
      ELSE wrap_fallback(s)

(***************************************************************************)
(* html.unescape on the character references of the model's alphabet.      *)
(* "&#1;" is an invalid code point, which unescape replaces by nothing.    *)
(***************************************************************************)
CharRef(c) ==
  CASE c = "&lt;"  -> <<"<">>
    [] c = "&gt;"  -> <<">">>
    [] c = "&#32;" -> <<" ">>
    [] c = "&#1;"  -> <<>>
    [] OTHER       -> <<c>>

RECURSIVE unescape(_)
unescape(s) == IF s = <<>> THEN <<>> ELSE CharRef(Head(s)) \o unescape(Tail(s))

\* ''.join(self.content)
RECURSIVE get_xml(_)
get_xml(chunks) == IF chunks = <<>> THEN <<>> ELSE Head(chunks) \o get_xml(Tail(chunks))

\* 'xmlmarkup' in attrs_dict.get('class', ''): the class value is a text
\* whose symbol "xmlmarkup" stands for that substring.
HasXmlmarkup(cls) == \E i \in 1..Len(cls) : cls[i] = "xmlmarkup"

(***************************************************************************)
(* Inputs.                                                                 *)
(***************************************************************************)
\* Every tag named by a category table or tested literally by wrap_fragment.
TableTags ==
  MEASURE_CONTENT_ELEMENTS \cup NOTE_CONTENT_ELEMENTS \cup NOTATION_ELEMENTS
    \cup ARTICULATION_ELEMENTS \cup DIRECTION_TYPE_ELEMENTS
    \cup DOCUMENT_ROOT_TAGS \cup NON_TARGET_TAGS \cup PITCH_REPLACING_TAGS
    \cup ATTRIBUTE_SECTION_TAGS \cup PART_LIST_SECTION_TAGS \cup HEADER_TAGS
    \cup { <<"m","e","a","s","u","r","e">>, <<"p","a","r","t">>,
           <<"d","i","r","e","c","t","i","o","n","-","t","y","p","e">>,
           <<"n","o","t","a","t","i","o","n","s">> }

\* Tags of no table, and table tags written in another letter case.
OtherTags ==
  { <<"f","o","o">>, <<"x","2","-","y">>,
    <<"M","e","a","s","u","r","e">>, <<"S","O","U","N","D">>,
    <<"S","e","g","n","o">>, <<"W","o","r","k">>, <<"P","a","r","t">>,
    <<"K","e","y">>, <<"S","c","o","r","e","-","P","a","r","t">> }

\* Lines that may follow the opening tag: empty, whitespace only, a child.
BodyLines == { <<>>, <<" ", "\t">>, <<" ", " ", "<", "x", "/", ">">> }

RECURSIVE BodiesOfLen(_)
BodiesOfLen(n) ==
  IF n = 0 THEN {<<>>}
  ELSE {b \o <<"\n">> \o l : b \in BodiesOfLen(n - 1), l \in BodyLines}

Bodies == UNION {BodiesOfLen(n) : n \in 0..MaxBodyLines}

\* Text before the opening tag, end of the opening tag, text after the body.
Shapes ==
  { [pre |-> <<>>, close |-> <<">">>, post |-> <<>>],
    [pre |-> <<" ", "\n">>, close |-> <<" ", "n", "=", "1", "/", ">">>,
     post |-> <<"\n", " ">>] }

\* Texts without an element at the start, or without any element.
OddFragments ==
  { <<>>, <<" ">>, <<"h", "i">>, <<"<">>, <<"<", "1", ">">>, <<"<", " ", "a", ">">>,
    <<"<", "!", "-", "-", " ", "-", "-", ">">>,
    <<"<", "?", "x", "?", ">", "\n", "<", "n", "o", "t", "e", "/", ">">>,
    <<"h", "i", " ", "<", "w", "o", "r", "k", ">">> }

Fragments ==
  { sh.pre \o <<"<">> \o t \o sh.close \o b \o sh.post :
      t \in TableTags \cup OtherTags, sh \in Shapes, b \in Bodies }
    \cup OddFragments

\* What handle_data may receive in one call.
DataChunks ==
  { <<" ">>, <<"h", "i">>, <<"<", "a", "/", ">">>, <<"&lt;", "a", "/", "&gt;">>,
    <<"&#32;">>, <<"&#1;">>, <<"<", "w", "o", "r", "k", "/", ">">>,
    <<"<", "s", "c", "o", "r", "e", "-", "p", "a", "r", "t", "w", "i", "s", "e", ">">> }

\* Values of a start tag's class attribute; <<>> is the default '' of
\* attrs_dict.get when the attribute is absent, None a class without value.
ClassValues ==
  { <<>>, None, <<"xmlmarkup">>, <<"nohighlight", " ", "xmlmarkup">>, <<"note">> }

HtmlTags == {"div", "pre"}

(***************************************************************************)
(* Specification Spec: get_root_element and wrap_fragment applied to a     *)
(* fragment text.                                                          *)
(***************************************************************************)
Init ==
  /\ pc = "input"
  /\ xml \in Fragments
  /\ root = None
  /\ wrapped = None
  /\ html_left = 0
  /\ in_xmlmarkup = FALSE
  /\ depth = 0
  /\ content = <<>>
  /\ skipped = <<>>

CallGetRoot ==
  /\ pc = "input"
  /\ root' = get_root_element(xml)
  /\ pc' = "rooted"
  /\ UNCHANGED <<html_left, in_xmlmarkup, depth, content, xml, wrapped, skipped>>

CallWrap ==
  /\ pc = "rooted"
  /\ wrapped' = wrap_fragment(xml)
  /\ pc' = "wrapped"
  /\ UNCHANGED <<html_left, in_xmlmarkup, depth, content, xml, root, skipped>>

Next == CallGetRoot \/ CallWrap

Spec == Init /\ [][Next]_vars

(***************************************************************************)
(* Specification SpecMain: one iteration of main's loop.  The HTML file is *)
(* fed to a new XMLMarkupExtractor as a sequence of parser events; the     *)
(* extracted text is classified, wrapped and written or skipped.           *)
(***************************************************************************)
InitMain ==
  /\ pc = "feed"
  /\ html_left = MaxEvents
  /\ in_xmlmarkup = FALSE
  /\ depth = 0
  /\ content = <<>>
  /\ xml = None
  /\ root = None
  /\ wrapped = None
  /\ skipped = <<>>

\* handle_starttag; a class attribute without a value makes
\* "'xmlmarkup' in None" raise TypeError, which ends the program.
handle_starttag(tag, cls) ==
  /\ pc = "feed"
  /\ html_left > 0
  /\ html_left' = html_left - 1
  /\ IF tag = "div"
     THEN IF cls = None
          THEN /\ pc' = "raised"
               /\ UNCHANGED <<in_xmlmarkup, depth, content>>
          ELSE IF HasXmlmarkup(cls)
          THEN /\ in_xmlmarkup' = TRUE
               /\ depth' = 1
               /\ content' = <<>>
               /\ pc' = pc
          ELSE IF in_xmlmarkup
          THEN /\ depth' = depth + 1
               /\ UNCHANGED <<pc, in_xmlmarkup, content>>
          ELSE UNCHANGED <<pc, in_xmlmarkup, depth, content>>
     ELSE UNCHANGED <<pc, in_xmlmarkup, depth, content>>
  /\ UNCHANGED <<xml, root, wrapped, skipped>>

\* handle_endtag without the in_xmlmarkup guard
handle_endtag_unguarded(tag) ==
  /\ pc = "feed"
  /\ html_left > 0
  /\ html_left' = html_left - 1
  /\ IF tag = "div"
     THEN /\ depth' = depth - 1
          /\ in_xmlmarkup' = IF depth - 1 = 0 THEN FALSE ELSE in_xmlmarkup
     ELSE UNCHANGED <<in_xmlmarkup, depth>>
  /\ UNCHANGED <<pc, content, xml, root, wrapped, skipped>>

handle_endtag(tag) ==
  /\ pc = "feed"
  /\ html_left > 0
  /\ html_left' = html_left - 1
  /\ IF in_xmlmarkup /\ tag = "div"
     THEN /\ depth' = depth - 1
          /\ in_xmlmarkup' = IF depth - 1 = 0 THEN FALSE ELSE in_xmlmarkup
     ELSE UNCHANGED <<in_xmlmarkup, depth>>
  /\ UNCHANGED <<pc, content, xml, root, wrapped, skipped>>

handle_data(data) ==
  /\ pc = "feed"
  /\ html_left > 0
  /\ html_left' = html_left - 1
  /\ content' = IF in_xmlmarkup THEN Append(content, data) ELSE content
  /\ UNCHANGED <<pc, in_xmlmarkup, depth, xml, root, wrapped, skipped>>

\* extract_xml_from_html, after parser.feed has consumed the file
extract_xml_from_html ==
  /\ pc = "feed"
  /\ LET x == strip(get_xml(content))
     IN  xml' = IF x = <<>> THEN None ELSE unescape(x)
  /\ pc' = "extracted"
  /\ html_left' = 0
  /\ UNCHANGED <<in_xmlmarkup, depth, content, root, wrapped, skipped>>

\* main: if xml is None
MainNoXml ==
  /\ pc = "extracted"
  /\ xml = None
  /\ skipped' = Append(skipped, <<"no xml content">>)
  /\ pc' = "done"
  /\ UNCHANGED <<html_left, in_xmlmarkup, depth, content, xml, root, wrapped>>

\* main: root = get_root_element(xml) and the test for complete files
MainGetRoot ==
  /\ pc = "extracted"
  /\ xml # None
  /\ root' = get_root_element(xml)
  /\ IF root' \in DOCUMENT_ROOT_TAGS
     THEN /\ skipped' = Append(skipped, <<"complete file">>)
          /\ pc' = "done"
     ELSE /\ skipped' = skipped
          /\ pc' = "classified"
  /\ UNCHANGED <<html_left, in_xmlmarkup, depth, content, xml, wrapped>>

\* main: wrapped = wrap_fragment(xml, subdir.name), then skip or write
MainWrap ==
  /\ pc = "classified"
  /\ wrapped' = wrap_fragment(xml)
  /\ IF wrapped' = None
     THEN /\ skipped' = Append(skipped, <<"unsupported root: ">> \o root)
          /\ pc' = "done"
     ELSE /\ skipped' = skipped
          /\ pc' = "written"
  /\ UNCHANGED <<html_left, in_xmlmarkup, depth, content, xml, root>>

NextMain ==
  \/ \E tag \in HtmlTags, cls \in ClassValues : handle_starttag(tag, cls)
  \/ \E tag \in HtmlTags : handle_endtag(tag)
  \/ \E data \in DataChunks : handle_data(data)
  \/ extract_xml_from_html
  \/ MainNoXml
  \/ MainGetRoot
  \/ MainWrap

SpecMain == InitMain /\ [][NextMain]_vars

(***************************************************************************)
(* Vocabulary of the properties.                                           *)
(***************************************************************************)
\* Number of occurrences of a symbol in a text.
Count(doc, sym) == Cardinality({i \in 1..Len(doc) : doc[i] = sym})

\* Position of a symbol that occurs in a text.
Pos(doc, sym) == CHOOSE i \in 1..Len(doc) : doc[i] = sym

\* The lines strictly between the line open and the line close.
Between(doc, open, close) == SubSeq(doc, Pos(doc, open) + 2, Pos(doc, close) - 2)

\* Every non-blank line of a text starts with n spaces.
IndentedBy(text, n) ==
  \A i \in 1..Len(split(text)) :
    LET l == split(text)[i]
    IN  strip(l) # <<>> => Len(l) >= n /\ SubSeq(l, 1, n) = Spaces(n)

\* A text with n leading symbols removed from each non-blank line.
Dedent(text, n) ==
  LET lines == split(text)
  IN  join([i \in 1..Len(lines) |->
              IF strip(lines[i]) # <<>> THEN SubSeq(lines[i], n + 1, Len(lines[i]))
              ELSE lines[i]])

Tag_sound == <<"s","o","u","n","d">>
Tag_play == <<"p","l","a","y">>
Tag_opus == <<"o","p","u","s">>
Tag_dynamics == <<"d","y","n","a","m","i","c","s">>
Tag_notations == <<"n","o","t","a","t","i","o","n","s">>
Tag_segno == <<"s","e","g","n","o">>

\* wrap_fragment has returned a document
Returned == pc = "wrapped" /\ wrapped # None

(***************************************************************************)
(* C1                                                                      *)
(***************************************************************************)
\* The document has one synthesized measure that holds the fixed attributes
\* preamble and then the trimmed fragment, non-blank lines indented by 6.
MeasureContentShape ==
  /\ wrapped # None
  /\ Count(wrapped, "    <measure number=\"1\">") = 1
  /\ Count(wrapped, "    </measure>") = 1
  /\ Count(wrapped, "      </attributes>") = 1
  /\ SubSeq(wrapped, Pos(wrapped, "    <measure number=\"1\">") + 2,
            Pos(wrapped, "      </attributes>")) = Literal(MEASURE_PREAMBLE)
  /\ LET body == Between(wrapped, "      </attributes>", "    </measure>")
     IN  /\ IndentedBy(body, 6)
         /\ Dedent(body, 6) = strip(xml)

\* C1 as claimed: for every root tag in MEASURE_CONTENT_ELEMENTS, wrap_fragment
\* returns a document with exactly one synthesized measure whose content
\* after the preamble is the trimmed fragment indented by 6 spaces.
C1_AllMeasureContent ==
  pc = "wrapped" /\ root \in MEASURE_CONTENT_ELEMENTS => MeasureContentShape

\* C1 as amended: the same for every root tag in MEASURE_CONTENT_ELEMENTS
\* except 'sound', which the non-target test refuses first.
C1_MeasureContentRoundTrip ==
  /\ pc = "wrapped" /\ root \in MEASURE_CONTENT_ELEMENTS \ {Tag_sound}
       => MeasureContentShape
  /\ pc = "wrapped" /\ root = Tag_sound => wrapped = None

\* a measure-content fragment of several lines, one of them blank, wrapped
C1_Witness ==
  /\ pc = "wrapped"
  /\ root = <<"n","o","t","e">>
  /\ wrapped # None
  /\ \E i \in 2..(Len(split(strip(xml))) - 1) : strip(split(strip(xml))[i]) = <<>>

(***************************************************************************)
(* C2                                                                      *)
(***************************************************************************)
\* C2: wrap_fragment returns None exactly when no root tag is found or the
\* root tag is a document root, a header tag or a non-target tag; for every
\* other tag it returns a document.
C2_RefusesExactly ==
  pc = "wrapped" =>
    (wrapped = None <=>
       \/ root = None
       \/ root \in DOCUMENT_ROOT_TAGS
       \/ root \in HEADER_TAGS
       \/ root \in NON_TARGET_TAGS)

\* a header fragment with content was refused
C2_Witness ==
  /\ pc = "wrapped"
  /\ root = <<"c","r","e","d","i","t">>
  /\ Len(split(strip(xml))) > 1
  /\ wrapped = None

(***************************************************************************)
(* C3                                                                      *)
(***************************************************************************)
\* C3 as claimed: the tag returned by get_root_element is normalized to
\* lowercase, so that it holds no uppercase letter.
C3_LowercaseTag ==
  pc # "input" /\ root # None => \A i \in 1..Len(root) : root[i] \notin Upper

(***************************************************************************)
(* C4                                                                      *)
(***************************************************************************)
\* The fragment is the content of a <direction-type> inside a <direction>
\* inside the one synthesized measure inside the one part.
DirectionShape ==
  /\ wrapped # None
  /\ \A sym \in { "  <part id=\"P1\">", "    <measure number=\"1\">",
                  "      <direction>", "        <direction-type>",
                  "        </direction-type>", "      </direction>",
                  "    </measure>", "  </part>" } : Count(wrapped, sym) = 1
  /\ Pos(wrapped, "  <part id=\"P1\">") < Pos(wrapped, "    <measure number=\"1\">")
  /\ Pos(wrapped, "    <measure number=\"1\">") < Pos(wrapped, "      <direction>")
  /\ Pos(wrapped, "      <direction>") + 2 = Pos(wrapped, "        <direction-type>")
  /\ Pos(wrapped, "        </direction-type>") + 2 = Pos(wrapped, "      </direction>")
  /\ Pos(wrapped, "      </direction>") + 2 = Pos(wrapped, "    </measure>")
  /\ Pos(wrapped, "    </measure>") + 2 = Pos(wrapped, "  </part>")
  /\ LET body == Between(wrapped, "        <direction-type>", "        </direction-type>")
     IN  /\ IndentedBy(body, 10)
         /\ Dedent(body, 10) = strip(xml)

\* C4 as claimed: for every root tag in DIRECTION_TYPE_ELEMENTS the fragment
\* is wrapped in direction-type, direction, one measure and one part.
C4_AllDirectionTypes ==
  pc = "wrapped" /\ root \in DIRECTION_TYPE_ELEMENTS => DirectionShape

\* C4 as amended: the same for every root tag in DIRECTION_TYPE_ELEMENTS
\* except 'dynamics', which is also in NOTATION_ELEMENTS and is wrapped in a
\* note by the earlier branch.
C4_DirectionTypesButDynamics ==
  /\ pc = "wrapped" /\ root \in DIRECTION_TYPE_ELEMENTS \ {Tag_dynamics}
       => DirectionShape
  /\ pc = "wrapped" /\ root = Tag_dynamics
       => /\ wrapped # None
          /\ Count(wrapped, "      <direction>") = 0
          /\ Count(wrapped, "      <note>") = 1

\* a 'segno' fragment wrapped
C4_Witness == pc = "wrapped" /\ root = Tag_segno /\ wrapped # None

(***************************************************************************)
(* C5                                                                      *)
(***************************************************************************)
\* The membership conditions of the branches of wrap_fragment, in code order.
BranchConditions(r) ==
  << IsComplete(r), IsNonTarget(r), IsMeasure(r), IsPart(r), IsMeasureContent(r),
     IsNoteContent(r), IsDirectionTypeContent(r), IsDirectionType(r),
     IsNotations(r), IsAttributeSection(r), IsPartListSection(r), IsHeader(r) >>

MatchCount(r) ==
  Cardinality({b \in 1..Len(BranchConditions(r)) : BranchConditions(r)[b]})

\* C5 as claimed: every tag of a category collection satisfies the condition
\* of exactly one branch.
C5_ExactlyOneBranch ==
  pc = "wrapped" /\ root \in TableTags => MatchCount(root) = 1

\* C5 as amended: every tag of a category collection satisfies the condition
\* of at least one branch and of at most two; the tags that satisfy two are
\* exactly sound, play, opus, dynamics and notations (the first branch in
\* code order handles them).
C5_OneBranchButFive ==
  pc = "wrapped" /\ root \in TableTags =>
    /\ MatchCount(root) \in {1, 2}
    /\ MatchCount(root) = 2 <=>
         root \in {Tag_sound, Tag_play, Tag_opus, Tag_dynamics, Tag_notations}

\* a tag of two branches was dispatched
C5_Witness == pc = "wrapped" /\ root = Tag_notations /\ MatchCount(root) = 2

(***************************************************************************)
(* C6                                                                      *)
(***************************************************************************)
\* C6: every document starts with the XML declaration line, has one
\* score-partwise root with one part-list of one score-part and, except for
\* the roots 'measure' and 'part', one part with one synthesized measure.
C6_DocumentScaffold ==
  Returned =>
    /\ SubSeq(wrapped, 1, 3) = << "<?xml version=\"1.0\" encoding=\"UTF-8\"?>", "\n",
                                  "<score-partwise version=\"4.1\">" >>
    /\ wrapped[Len(wrapped)] = "</score-partwise>"
    /\ \A sym \in { "<?xml version=\"1.0\" encoding=\"UTF-8\"?>",
                    "<score-partwise version=\"4.1\">", "</score-partwise>",
                    "  <part-list>", "  </part-list>",
                    "    <score-part id=\"P1\">", "    </score-part>" } :
         Count(wrapped, sym) = 1
    /\ Pos(wrapped, "  <part-list>") < Pos(wrapped, "    <score-part id=\"P1\">")
    /\ Pos(wrapped, "    <score-part id=\"P1\">") < Pos(wrapped, "  </part-list>")
    /\ ~IsMeasure(root) /\ ~IsPart(root) =>
         /\ \A sym \in { "  <part id=\"P1\">", "  </part>",
                         "    <measure number=\"1\">", "    </measure>" } :
              Count(wrapped, sym) = 1
         /\ Pos(wrapped, "  </part-list>") < Pos(wrapped, "  <part id=\"P1\">")
         /\ Pos(wrapped, "  <part id=\"P1\">") + 2 = Pos(wrapped, "    <measure number=\"1\">")
         /\ Pos(wrapped, "    <measure number=\"1\">") < Pos(wrapped, "    </measure>")
         /\ Pos(wrapped, "    </measure>") + 2 = Pos(wrapped, "  </part>")

\* documents of the attribute-section branch exist
C6_Witness == Returned /\ IsAttributeSection(root)

(***************************************************************************)
(* C7                                                                      *)
(***************************************************************************)
\* C7 as claimed: the text main passes to get_root_element or wrap_fragment
\* is non-empty, trimmed and starts with '<'.
C7_InputContract ==
  (pc = "extracted" /\ xml # None) \/ pc = "classified" =>
    /\ xml # <<>>
    /\ strip(xml) = xml
    /\ xml[1] = "<"

(***************************************************************************)
(* C8                                                                      *)
(***************************************************************************)
\* The lines of the trimmed fragment are consecutive lines of the document,
\* the non-blank ones with the same n spaces in front, the blank ones as is.
ContainsFragment ==
  LET F == split(strip(xml))
      D == split(wrapped)
  IN  \E n \in 0..10 : \E off \in 0..(Len(D) - Len(F)) :
        \A i \in 1..Len(F) :
          D[off + i] = IF strip(F[i]) # <<>> THEN Spaces(n) \o F[i] ELSE F[i]

reference_dispatch(s) ==
  LET r == get_root_element(s)
  IN  IF r = None THEN None
      ELSE IF IsComplete(r) THEN None
      ELSE IF IsMeasure(r) THEN wrap_measure(s)
      ELSE IF IsPart(r) THEN wrap_part(s)
      ELSE IF IsNonTarget(r) THEN None
      ELSE IF IsMeasureContent(r) THEN wrap_measure_content(s)
      ELSE IF IsNoteContent(r) THEN wrap_note_content(s, r)
      ELSE IF IsDirectionTypeContent(r) \/ IsDirectionType(r)
           THEN IF IsDirectionType(r) THEN wrap_direction_type(s)
                ELSE wrap_direction_type_content(s)
      ELSE IF IsNotations(r) THEN wrap_notations(s)
      ELSE IF IsAttributeSection(r) THEN wrap_attribute_section(s)
      ELSE IF IsPartListSection(r) THEN wrap_part_list_section
      ELSE IF IsHeader(r) THEN None
      ELSE wrap_measure_content(s)

\* C9: the result of wrap_fragment is the result of the twelve rules applied
\* in the order of the specification, first match wins.
C9_SameAsSpecOrder == pc = "wrapped" => wrapped = reference_dispatch(xml)

\* a 'part' fragment, which the code tests after the non-target list
C9_Witness == Returned /\ IsPart(root)

(***************************************************************************)
(* C10                                                                     *)
(***************************************************************************)
\* C10: in_xmlmarkup holds exactly when depth >= 1, depth is never negative,
\* and content grows only in a step taken while in_xmlmarkup holds.
C10_ExtractorInvariant ==
  /\ [](in_xmlmarkup <=> depth >= 1)
  /\ [](depth >= 0)
  /\ [][Len(content') > Len(content) => in_xmlmarkup]_vars

\* the file ended inside a div nested in an xmlmarkup div, with data collected
C10_Witness == in_xmlmarkup /\ depth = 2 /\ content # <<>> /\ html_left = 0

====
